---- MODULE Spec2Model ----
(***************************************************************************)
(* The admin API client session layer of agentcost-admin:                  *)
(*   src/src/lib/api.ts            request / refreshAccessToken /          *)
(*                                 doRefreshAccessToken / adminLogin       *)
(*   src/src/contexts/AdminAuthContext.tsx   init / login / logout         *)
(*                                                                         *)
(* JavaScript runs one continuation at a time.  Every action below is one  *)
(* synchronous run of code between two suspension points (await), under    *)
(* any interleaving of the suspended call chains.                          *)
(***************************************************************************)
EXTENDS Integers, Sequences, FiniteSets, TLC

\* Number of request() call chains; each runs request() once.
NumReq == 2

Reqs == 1..NumReq

\* JavaScript values that are not strings.
NULL == "<null>"
UNDEF == "<undefined>"

\* JavaScript truthiness of a string-or-null-or-undefined value.
Truthy(v) == v \notin {NULL, UNDEF, ""}

\* String(v), as localStorage.setItem applies it to its value.
ToStr(v) == IF v = UNDEF THEN "undefined" ELSE IF v = NULL THEN "null" ELSE v

\* The handle value "no refresh in flight" (refreshPromise = null).
NoPromise == 0

\* Tokens in the store before this page load (an earlier session's).
OldAccess == "a0"
OldRefresh == "r0"
OldUser == "u0"

\* The tokens the backend mints for the n-th run of the refresh algorithm.
AccessTok(n) == "a" \o ToString(n)
RefreshTok(n) == "r" \o ToString(n)

\* What a fetch() of the caller's HTTP call can settle with: a rejection
\* (NetErr) or a response.  valid: the body parses as JSON (an error body
\* that parses is a JSON object); detail: the body's detail field (UNDEF when
\* the body has none or is not JSON, "" for an empty one); text:
\* response.statusText, which is empty over HTTP/2.
Statuses == {200, 400, 401, 403, 404, 500}
Ok(status) == status >= 200 /\ status <= 299
ReasonPhrase(status) ==
    CASE status = 200 -> "OK"
      [] status = 400 -> "Bad Request"
      [] status = 401 -> "Unauthorized"
      [] status = 403 -> "Forbidden"
      [] status = 404 -> "Not Found"
      [] OTHER -> "Internal Server Error"
NetErr == [status |-> 0, text |-> "", valid |-> FALSE, detail |-> UNDEF]
Responses ==
    {[status |-> s, text |-> t, valid |-> v, detail |-> d] :
        s \in Statuses, t \in {"", "reason"}, v \in BOOLEAN,
        d \in {UNDEF, "", "detail"}}
HttpResponses ==
    {[x EXCEPT !.text = IF x.text = "" THEN "" ELSE ReasonPhrase(x.status)] :
        x \in {y \in Responses :
                 /\ (y.detail # UNDEF => y.valid /\ ~Ok(y.status))
                 /\ (Ok(y.status) => y.text # "")}}
\* The answers the concurrent call chains are driven with: a rejection, and
\* one response per status of a 2xx, a 401 and one other failure (the
\* settlement is a function of the final response alone, so the other
\* statuses, texts and bodies, which OneCallSpec draws, change no step of
\* any call chain).
FetchResults ==
    {x \in HttpResponses :
        /\ x.status \in {200, 401, 403}
        /\ x.text # "" /\ x.detail = UNDEF
        /\ (Ok(x.status) <=> x.valid)} \cup {NetErr}

\* What the refresh endpoint can answer: a rejection, a non-2xx status, a 2xx
\* whose body is not JSON, or a 2xx JSON body whose access_token and
\* refresh_token fields are each present or missing.  n numbers the tokens
\* the backend mints.
RefreshBodies(n) ==
    [valid : {TRUE}, access_token : {UNDEF, AccessTok(n)},
     refresh_token : {UNDEF, RefreshTok(n)}]
      \cup {[valid |-> FALSE, access_token |-> UNDEF, refresh_token |-> UNDEF]}
RefreshResults(n) ==
    {[status |-> 200, body |-> b] : b \in RefreshBodies(n)}
      \cup {[status |-> s, body |-> [valid |-> FALSE, access_token |-> UNDEF,
                                     refresh_token |-> UNDEF]] : s \in {0, 401, 500}}

VARIABLES
    store,           \* localStorage: admin_access_token, admin_refresh_token, admin_user
    refreshPromise,  \* api.ts module variable: NoPromise or the index of a promise
    promises,        \* the promises doRefreshAccessToken() has returned, in order
    req,             \* the request() call chains
    ctx,             \* AdminAuthProvider: user, isLoading, the pathname, init's position
    login            \* the login() call chain of the login form

vars == <<store, refreshPromise, promises, req, ctx, login>>

\* A request() call chain.  token, auth (the Authorization header), response
\* and newToken are its locals; calls counts its fetch() calls, refreshes its
\* refreshAccessToken() calls, saw is the handle it found on entering
\* refreshAccessToken(), joined the promise it awaits, first and last the
\* status of the first and of the latest answer to its HTTP call (0 for a
\* rejected fetch); together says that every earlier call chain was still
\* awaiting its first answer when this one started; sent lists the fetch()
\* calls it made, each with its target (the path and options request() was
\* called with) and its Authorization header; result is how the call
\* settled.
NoResponse == [status |-> -1, text |-> "", valid |-> FALSE, detail |-> UNDEF]
NoResult == [kind |-> "none", status |-> 0, message |-> "", from |-> 0]
IdleReq ==
    [pc |-> "idle", token |-> NULL, auth |-> UNDEF, calls |-> 0, together |-> FALSE,
     refreshes |-> 0, saw |-> NoPromise, joined |-> NoPromise,
     newToken |-> UNDEF, response |-> NoResponse, first |-> -1, last |-> -1,
     sent |-> <<>>, result |-> NoResult]

\* The provider as constructed (lines 35-36), on the page at `pathname`;
\* init is the position of the bootstrap effect, vreq its verifyAdmin() call.
NewCtx(pathname) ==
    [user |-> NULL, isLoading |-> TRUE, pathname |-> pathname,
     init |-> "mounted", vreq |-> 0]

\* The login() call chain: data is adminLogin()'s parsed login body, bearer
\* the Authorization header of its verify call, loginOk / verifyOk whether
\* each of the two calls answered 2xx, auth the Authorization header of the
\* login call (UNDEF for none), res the answer to the login call,
\* verify the status of the verify answer (0 for a rejected fetch), result
\* how login() settled.
NoData == [access_token |-> UNDEF, refresh_token |-> UNDEF, user |-> UNDEF]
IdleLogin ==
    [pc |-> "idle", attempts |-> 0, data |-> NoData, bearer |-> UNDEF,
     loginOk |-> FALSE, verifyOk |-> FALSE, verifyCalls |-> 0, verify |-> -1,
     auth |-> UNDEF, res |-> NoResponse, result |-> NoResult]

\* The store a page load can find: what an earlier session left.
StoresAtLoad ==
    [access : {NULL, OldAccess}, refresh : {NULL, OldRefresh}, user : {NULL, OldUser}]

\* The API client alone: the module as loaded (line 36), any stored tokens.
Init ==
    /\ store \in {st \in StoresAtLoad : st.user = NULL}
    /\ refreshPromise = NoPromise
    /\ promises = <<>>
    /\ req = [r \in Reqs |-> IdleReq]
    /\ ctx = NewCtx("/")
    /\ login = IdleLogin

\* The application as loaded on a dashboard page or on the login page.
AuthInit ==
    /\ store \in StoresAtLoad
    /\ refreshPromise = NoPromise
    /\ promises = <<>>
    /\ req = [r \in Reqs |-> IdleReq]
    /\ ctx \in {NewCtx("/"), NewCtx("/login")}
    /\ login = IdleLogin

getToken == store.access

getRefreshToken == store.refresh

Bearer(t) == "Bearer " \o t

\* Call chains are numbered in the order they start.
NextSlot(r) ==
    /\ req[r].pc = "idle"
    /\ IF r = 1 THEN TRUE ELSE req[r - 1].pc # "idle"

\* The path and options (method, body) that call chain r passes to request().
Target(r) == "call" \o ToString(r)

\* request(), lines 79-93: read the token, build the headers, issue the call.
Started(r) ==
    LET token == getToken
        auth == IF Truthy(token) THEN Bearer(token) ELSE UNDEF
    IN
    [req EXCEPT ![r] =
       [@ EXCEPT !.pc = "fetch1", !.token = token,
                 !.auth = auth,
                 !.calls = 1,
                 !.sent = <<[target |-> Target(r), auth |-> auth]>>,
                 !.together = \A q \in 1..(r - 1) : req[q].pc = "fetch1"]]

\* Some caller calls request().
RequestStart(r) ==
    /\ NextSlot(r)
    /\ req' = Started(r)
    /\ UNCHANGED <<store, refreshPromise, promises, ctx, login>>

\* request(), lines 104-111: the settlement from the final response.
\* response.json() rejects on a body that is not JSON: for a non-2xx response
\* the .catch substitutes {detail: statusText}; for a 2xx one the rejection
\* is request()'s own.
\* An error body read without the .catch: a body that is not JSON has no
\* detail.
ErrorBodyDetailOnly(resp) == resp.detail

ErrorBody(resp) == IF resp.valid THEN resp.detail ELSE resp.text
\* A message that falls back to the status text for a body without detail.
ErrorMessageStatusText(resp) ==
    IF Truthy(ErrorBody(resp)) THEN ErrorBody(resp) ELSE resp.text

ErrorMessage(resp) ==
    IF Truthy(ErrorBody(resp)) THEN ErrorBody(resp) ELSE "Request failed"
Settle(resp, from) ==
    IF ~Ok(resp.status)
    THEN [kind |-> "ApiError", status |-> resp.status,
          message |-> ErrorMessage(resp), from |-> from]
    ELSE IF resp.valid
    THEN [kind |-> "value", status |-> resp.status, message |-> "", from |-> from]
    ELSE [kind |-> "SyntaxError", status |-> 0, message |-> "", from |-> from]
\* A rejected fetch wrapped like an HTTP failure.
TransportErrorAsApiError(from) ==
    [kind |-> "ApiError", status |-> 0, message |-> "Request failed", from |-> from]

TransportError(from) ==
    [kind |-> "TypeError", status |-> 0, message |-> "", from |-> from]

\* A refresh that posts whatever getRefreshToken() returned, also null.
doRefreshAccessTokenUnguarded(r) ==
    [state |-> "pending", value |-> UNDEF, called |-> TRUE,
     sent |-> getRefreshToken, by |-> r, answer |-> "none", rotated |-> UNDEF]

\* doRefreshAccessToken(), lines 52-60: the synchronous part.  With no refresh
\* token the promise is born fulfilled with null and no call is made.  A
\* promise records who started it (by), the refresh token it sent, the kind
\* of answer the refresh endpoint gave it and the refresh_token that answer
\* carried (rotated).
doRefreshAccessToken(r) ==
    LET refreshToken == getRefreshToken IN
    IF ~Truthy(refreshToken)
    THEN [state |-> "fulfilled", value |-> NULL, called |-> FALSE,
          sent |-> refreshToken, by |-> r, answer |-> "none", rotated |-> UNDEF]
    ELSE [state |-> "pending", value |-> UNDEF, called |-> TRUE,
          sent |-> refreshToken, by |-> r, answer |-> "none", rotated |-> UNDEF]

\* A guard that never sees the handle: every caller refreshes for itself.
InFlightNever == FALSE

\* refreshAccessToken(), line 39: is a refresh in flight?
InFlight == refreshPromise # NoPromise

\* A refresh on every 401, whether or not a token was attached.
ShouldRefreshAny401(resp, token) == resp.status = 401

\* A refresh on every failed response to a call that carried a token.
ShouldRefreshAnyFailure(resp, token) == ~Ok(resp.status) /\ Truthy(token)

\* A refresh after every answer to a call that carried a token.
ShouldRefreshAnyResponse(resp, token) == Truthy(token)

\* request(), line 96: does this response start the refresh path?
ShouldRefresh(resp, token) == resp.status = 401 /\ Truthy(token)

\* refreshAccessToken(), lines 39-45, called from request() line 97: return
\* the handle in flight, or start doRefreshAccessToken() and keep its promise
\* as the handle; either way the caller suspends on that promise.
refreshAccessToken(r, resp) ==
    IF InFlight
    THEN /\ req' = [req EXCEPT ![r] =
                      [@ EXCEPT !.pc = "awaitShared", !.response = resp,
                                !.first = resp.status,
                                !.last = resp.status, !.refreshes = @ + 1, !.saw = refreshPromise,
                                !.joined = refreshPromise]]
         /\ UNCHANGED <<store, refreshPromise, promises, ctx, login>>
    ELSE /\ promises' = Append(promises, doRefreshAccessToken(r))
         /\ refreshPromise' = Len(promises) + 1
         /\ req' = [req EXCEPT ![r] =
                      [@ EXCEPT !.pc = "awaitOwn", !.response = resp,
                                !.first = resp.status,
                                !.last = resp.status, !.refreshes = @ + 1, !.saw = refreshPromise,
                                !.joined = Len(promises) + 1]]
         /\ UNCHANGED <<store, ctx, login>>

\* request() settles on the answer resp to its latest call: resolve or
\* throw.  A rejected fetch assigns nothing to `response`.
Finish(r, resp, result) ==
    /\ req' = [req EXCEPT ![r] =
                 [@ EXCEPT !.pc = "done", !.result = result, !.last = resp.status,
                           !.first = IF @ = -1 THEN resp.status ELSE @,
                           !.response = IF resp = NetErr THEN @ ELSE resp,
                           !.auth = UNDEF]]
    /\ UNCHANGED <<store, refreshPromise, promises, ctx, login>>

\* request(), lines 90-111: the first fetch() settles.
RequestResponse1(r, resp) ==
    /\ req[r].pc = "fetch1"
    /\ IF resp = NetErr
       THEN Finish(r, resp, TransportError(1))
       ELSE IF ShouldRefresh(resp, req[r].token)
       THEN refreshAccessToken(r, resp)
       ELSE Finish(r, resp, Settle(resp, 1))

\* The kind of a refresh endpoint answer.
AnswerKind(res) ==
    IF res.status = 0 THEN "network error"
    ELSE IF ~Ok(res.status) THEN "non-2xx"
    ELSE IF ~res.body.valid THEN "not JSON"
    ELSE IF res.body.access_token = UNDEF THEN "no access_token"
    ELSE "token"

\* doRefreshAccessToken() without its try/catch: a rejected fetch or a body
\* that does not parse rejects the promise.
RefreshOutcomeUncaught(res) ==
    IF res.status = 0 \/ (Ok(res.status) /\ ~res.body.valid)
    THEN [state |-> "rejected", value |-> UNDEF, write |-> FALSE]
    ELSE IF ~Ok(res.status)
    THEN [state |-> "fulfilled", value |-> NULL, write |-> FALSE]
    ELSE [state |-> "fulfilled", value |-> res.body.access_token, write |-> TRUE]

\* doRefreshAccessToken(), lines 55-72: what the promise settles with, and
\* whether the store is written, given the refresh endpoint's answer.  Every
\* failure inside the try block is caught and becomes null.
RefreshOutcome(res) ==
    IF res.status = 0 \/ ~Ok(res.status) \/ ~res.body.valid
    THEN [state |-> "fulfilled", value |-> NULL, write |-> FALSE]
    ELSE [state |-> "fulfilled", value |-> res.body.access_token, write |-> TRUE]

\* A refresh that writes whatever refresh_token field the body has, also a
\* missing one.
StoreAfterRefreshAlwaysRotates(body) ==
    [store EXCEPT !.access = ToStr(body.access_token),
                  !.refresh = ToStr(body.refresh_token)]

\* doRefreshAccessToken(), lines 65-68: the store after a 2xx JSON answer.
StoreAfterRefresh(body) ==
    [store EXCEPT !.access = ToStr(body.access_token),
                  !.refresh = IF Truthy(body.refresh_token)
                              THEN ToStr(body.refresh_token) ELSE @]

\* doRefreshAccessToken(), lines 56-72: the refresh endpoint answers promise p.
RefreshResponse(p, res) ==
    /\ p \in 1..Len(promises)
    /\ promises[p].state = "pending"
    /\ LET out == RefreshOutcome(res) IN
       /\ promises' = [promises EXCEPT ![p] =
                         [@ EXCEPT !.state = out.state, !.value = out.value,
                                   !.answer = AnswerKind(res),
                                   !.rotated = res.body.refresh_token]]
       /\ store' = IF out.write THEN StoreAfterRefresh(res.body) ELSE store
    /\ UNCHANGED <<refreshPromise, req, ctx, login>>

\* A starter that leaves the handle as it is.
HandleAfterSettleKept == refreshPromise

\* refreshAccessToken(), line 47: the handle once the starter's await returns.
HandleAfterSettle == NoPromise

\* refreshAccessToken(), lines 45-48: the starter resumes after its promise
\* settled; the finally block clears the handle on either outcome.
RefreshFinally(r) ==
    /\ req[r].pc = "awaitOwn"
    /\ promises[req[r].joined].state # "pending"
    /\ refreshPromise' = HandleAfterSettle
    /\ req' = [req EXCEPT ![r] = [@ EXCEPT !.pc = "refreshed"]]
    /\ UNCHANGED <<store, promises, ctx, login>>

\* request(), lines 97-101: refreshAccessToken() has settled for this caller
\* (the starter after its finally block, a sharer once the shared promise
\* settled).  A truthy token is retried once; otherwise the first response
\* goes on to lines 104-111.
\* A retry whatever the refresh yielded.
RetryWithAnything(newToken) == TRUE

\* request(), line 98: is the call retried with what the refresh yielded?
RetryWith(newToken) == Truthy(newToken)

\* A caller that reads the store instead of the promise it was handed.
ResolvedValueFromStore(r) == getToken

\* The value `await refreshAccessToken()` yields to caller r: the settled
\* value of the promise it was handed.
ResolvedValue(r) == promises[req[r].joined].value

\* A retry that goes out with the headers of the first call.
RetryCallOldToken(r, newToken) == [target |-> Target(r), auth |-> req[r].auth]

\* request(), lines 99-100: the retry is fetch() of the same path with the
\* same options and the Authorization header replaced.
RetryCall(r, newToken) == [target |-> Target(r), auth |-> Bearer(newToken)]

RequestAfterRefresh(r) ==
    /\ \/ req[r].pc = "refreshed"
       \/ req[r].pc = "awaitShared" /\ promises[req[r].joined].state # "pending"
    /\ LET p == promises[req[r].joined]
           newToken == ResolvedValue(r)
       IN IF p.state = "rejected"
          THEN req' = [req EXCEPT ![r] =
                         [@ EXCEPT !.pc = "done", !.auth = UNDEF,
                                   !.result = [kind |-> "RefreshError", status |-> 0,
                                               message |-> "", from |-> 0]]]
          ELSE IF RetryWith(newToken)
          THEN req' = [req EXCEPT ![r] =
                         [@ EXCEPT !.pc = "fetch2", !.newToken = newToken,
                                   !.auth = RetryCall(r, newToken).auth,
                                   !.sent = Append(@, RetryCall(r, newToken)),
                                   !.calls = @ + 1]]
          ELSE req' = [req EXCEPT ![r] =
                         [@ EXCEPT !.pc = "done", !.newToken = newToken,
                                   !.auth = UNDEF,
                                   !.result = Settle(req[r].response, 1)]]
    /\ UNCHANGED <<store, refreshPromise, promises, ctx, login>>

\* A retry whose 401 is put through the refresh path again.
AfterRetryAgain(r, resp) ==
    IF resp = NetErr
    THEN Finish(r, resp, TransportError(2))
    ELSE IF ShouldRefresh(resp, req[r].token)
    THEN refreshAccessToken(r, resp)
    ELSE Finish(r, resp, Settle(resp, 2))

\* request(), lines 100-111: the retry settles; its response is final,
\* whatever its status.
AfterRetry(r, resp) ==
    IF resp = NetErr
    THEN Finish(r, resp, TransportError(2))
    ELSE Finish(r, resp, Settle(resp, 2))

RequestResponse2(r, resp) ==
    /\ req[r].pc = "fetch2"
    /\ AfterRetry(r, resp)

\* An error body that is never read: the message depends on the status alone.
LoginErrorDetailIgnored(resp) == UNDEF

\* adminLogin(), line 139: the error body of a non-2xx login answer; the
\* .catch substitutes {detail: "Login failed"} for a body that is not JSON.
LoginErrorDetail(resp) == IF resp.valid THEN resp.detail ELSE "Login failed"

\* adminLogin(), lines 138-153: the error for a non-2xx login answer.  The
\* body is used only for a status other than 401, 400 and 403.
InvalidCredentials == "Invalid email or password."
AccountDisabled == "This account has been disabled. Contact your administrator."
ServerUnavailable == "Authentication server unavailable. Try again later."
LoginError(resp) ==
    IF resp.status = 401 \/ resp.status = 400
    THEN [kind |-> "ApiError", status |-> resp.status,
          message |-> InvalidCredentials, from |-> 1]
    ELSE IF resp.status = 403
    THEN [kind |-> "ApiError", status |-> 403,
          message |-> AccountDisabled, from |-> 1]
    ELSE [kind |-> "ApiError", status |-> resp.status,
          message |-> IF Truthy(LoginErrorDetail(resp)) THEN LoginErrorDetail(resp)
                      ELSE ServerUnavailable,
          from |-> 1]

\* adminLogin(), lines 162-167: the error for a non-2xx verify answer.
AccessDenied ==
    [kind |-> "ApiError", status |-> 403,
     message |-> "Access denied. This account does not have admin privileges.",
     from |-> 2]

\* The login endpoint's answers: non-2xx with a body that is not JSON or is
\* an object with or without a detail; a 2xx body that is not
\* JSON, a 2xx body with every field, one without the user.
LoginStatuses == {400, 401, 403, 500}
LoginAccess(n) == "la" \o ToString(n)
LoginRefresh(n) == "lr" \o ToString(n)
LoginBodies(n) ==
    {[access_token |-> LoginAccess(n), refresh_token |-> LoginRefresh(n), user |-> u] :
        u \in {UNDEF, "lu"}}
LoginFailures ==
    {x \in HttpResponses : x.status \in LoginStatuses /\ x.text # "" /\ x.detail # ""}

\* A login call that carries the stored token, as request() would send it.
LoginAuthorizationStored == "Bearer " \o ToStr(getToken)

\* adminLogin(), lines 132-136: the login call's headers are Content-Type
\* alone.
LoginAuthorization == UNDEF

\* The login form is on screen (login/page.tsx lines 29-38; with a user set
\* the route effect has already left the page) and submits.
\* login() line 79 calls adminLogin(), which issues the login call (132-136).
MaxLogin == 1
LoginSubmit ==
    /\ ctx.pathname = "/login"
    /\ ~ctx.isLoading
    /\ ctx.user = NULL
    /\ login.pc \in {"idle", "done"}
    /\ login.attempts < MaxLogin
    /\ login' = [IdleLogin EXCEPT !.pc = "loginFetch", !.attempts = login.attempts + 1,
                                   !.auth = LoginAuthorization]
    /\ UNCHANGED <<store, refreshPromise, promises, req, ctx>>

LoginSettled(result) == [login EXCEPT !.pc = "done", !.result = result]

\* adminLogin(), lines 132-153: the login call is rejected or answers non-2xx.
LoginFails(resp) ==
    /\ login.pc = "loginFetch"
    /\ login' = IF resp = NetErr THEN LoginSettled(TransportError(1))
                ELSE [LoginSettled(LoginError(resp)) EXCEPT !.res = resp]
    /\ UNCHANGED <<store, refreshPromise, promises, req, ctx>>

\* A verify call that carries the stored token, as request() would send it.
VerifyBearerStored(data) == "Bearer " \o ToStr(getToken)

\* adminLogin(), line 159: the Authorization header of the verify call.
VerifyBearer(data) == "Bearer " \o ToStr(data.access_token)

\* adminLogin(), lines 155-160: the login call answers 2xx; a JSON body is
\* parsed and the verify call issued with its access token.
LoginAnswers(valid, data) ==
    /\ login.pc = "loginFetch"
    /\ login' = IF ~valid
                THEN [LoginSettled([kind |-> "SyntaxError", status |-> 0,
                                    message |-> "", from |-> 1])
                        EXCEPT !.loginOk = TRUE]
                ELSE [login EXCEPT !.pc = "verifyFetch", !.loginOk = TRUE,
                                   !.data = data, !.bearer = VerifyBearer(data),
                                   !.verifyCalls = @ + 1]
    /\ UNCHANGED <<store, refreshPromise, promises, req, ctx>>

\* A verify call whose answer is not looked at.
VerifyPassesAnyAnswer(resp) == resp # NetErr

\* adminLogin(), line 162: does the verify answer let the login through?
VerifyPasses(resp) == resp # NetErr /\ Ok(resp.status)

\* A login() that sets the user without writing the store.
StoreAfterLoginUnwritten(data) == store

\* login(), lines 81-83: the store after adminLogin() returned data.
StoreAfterLogin(data) ==
    [access |-> ToStr(data.access_token), refresh |-> ToStr(data.refresh_token),
     user |-> ToStr(data.user)]

\* adminLogin(), lines 158-169, and login(), lines 81-92: the verify call
\* settles.  On 2xx login() writes the three keys, then reads data.user.id,
\* which throws when the body had no user.
VerifySettles(resp) ==
    /\ login.pc = "verifyFetch"
    /\ IF ~VerifyPasses(resp)
       THEN /\ login' = [(IF resp = NetErr THEN LoginSettled(TransportError(2))
                          ELSE LoginSettled(AccessDenied))
                           EXCEPT !.verify = resp.status]
            /\ UNCHANGED <<store, ctx>>
       ELSE /\ store' = StoreAfterLogin(login.data)
            /\ IF login.data.user = UNDEF
               THEN /\ login' = [LoginSettled([kind |-> "TypeError", status |-> 0,
                                               message |-> "", from |-> 0])
                                   EXCEPT !.verifyOk = TRUE, !.verify = resp.status]
                    /\ UNCHANGED ctx
               ELSE /\ login' = [LoginSettled([kind |-> "value", status |-> 200,
                                               message |-> "", from |-> 2])
                                   EXCEPT !.verifyOk = TRUE, !.verify = resp.status]
                    /\ ctx' = [ctx EXCEPT !.user = login.data.user, !.pathname = "/"]
    /\ UNCHANGED <<refreshPromise, promises, req>>

\* A layout that renders the shell whatever the auth state.
ShellRenderedUnguarded == ctx.pathname # "/login"

\* logout(), lines 97-103, from the shell's button (rendered by
\* DashboardLayout line 26 for an authenticated user).
ShellRendered == ~ctx.isLoading /\ ctx.user # NULL /\ ctx.pathname # "/login"
\* A clearing that removes the two tokens and keeps the cached user blob.
NoStoreTokensOnly == [access |-> NULL, refresh |-> NULL, user |-> store.user]

NoStore == [access |-> NULL, refresh |-> NULL, user |-> NULL]
logout ==
    /\ ShellRendered
    /\ store' = NoStore
    /\ ctx' = [ctx EXCEPT !.user = NULL, !.pathname = "/login"]
    /\ UNCHANGED <<refreshPromise, promises, req, login>>

\* Number of request() call chains the application makes in one page load:
\* the bootstrap's verifyAdmin() and the pages' calls.
MaxAppReq == 1

\* A bootstrap that ends without setIsLoading(false).
FinishedStillLoading(c) == [c EXCEPT !.init = "done"]

\* init(), lines 44 and 57: setIsLoading(false) as the bootstrap ends.
Finished(c) == [c EXCEPT !.init = "done", !.isLoading = FALSE]

\* A bootstrap that verifies whatever the store holds.
NoStoredTokenNever == FALSE

\* init(), lines 42-43: `if (!token)`.
NoStoredToken == ~Truthy(store.access)

\* init(), lines 40-49: the bootstrap effect runs once after the first render.
InitEffect(r) ==
    /\ ctx.init = "mounted"
    /\ NextSlot(r)
    /\ IF NoStoredToken
       THEN /\ ctx' = Finished(ctx)
            /\ UNCHANGED req
       ELSE /\ ctx' = [ctx EXCEPT !.init = "verifying", !.vreq = r]
            /\ req' = Started(r)
    /\ UNCHANGED <<store, refreshPromise, promises, login>>

\* init(), lines 49-58: verifyAdmin() settled.
InitSettles ==
    /\ ctx.init = "verifying"
    /\ req[ctx.vreq].pc = "done"
    /\ IF req[ctx.vreq].result.kind = "value"
       THEN /\ ctx' = Finished([ctx EXCEPT !.user = "admin"])
            /\ UNCHANGED store
       ELSE /\ ctx' = Finished(ctx)
            /\ store' = NoStore
    /\ UNCHANGED <<refreshPromise, promises, req, login>>

\* The route protection effect, lines 65-75.
RouteEffect ==
    /\ ~ctx.isLoading
    /\ IF ctx.user = NULL /\ ctx.pathname # "/login"
       THEN ctx' = [ctx EXCEPT !.pathname = "/login"]
       ELSE /\ ctx.user # NULL /\ ctx.pathname = "/login"
            /\ ctx' = [ctx EXCEPT !.pathname = "/"]
    /\ UNCHANGED <<store, refreshPromise, promises, req, login>>

\* A dashboard page, mounted inside the shell, loads its data.
PageRequest(r) ==
    /\ ShellRendered
    /\ r <= MaxAppReq
    /\ RequestStart(r)

\* The API client under concurrent request() calls.
Next ==
    \/ \E r \in Reqs : RequestStart(r)
    \/ \E r \in Reqs, resp \in FetchResults : RequestResponse1(r, resp)
    \/ \E p \in Reqs : \E res \in RefreshResults(p) : RefreshResponse(p, res)
    \/ \E r \in Reqs : RefreshFinally(r)
    \/ \E r \in Reqs : RequestAfterRefresh(r)
    \/ \E r \in Reqs, resp \in FetchResults : RequestResponse2(r, resp)

Spec == Init /\ [][Next]_vars

\* The continuation of `await refreshPromise` (lines 45-47) is a job on the
\* microtask queue once the promise has settled, and the queue is drained:
\* the starter's finally block is not postponed forever.
LiveSpec == Spec /\ WF_vars(\E r \in Reqs : RefreshFinally(r))

\* One request() call alone, driven with every response: each status, with
\* and without a status text, with a body that is not JSON or is an object
\* with a detail, an empty detail or none.
OneCallNext ==
    \/ RequestStart(1)
    \/ \E resp \in HttpResponses \cup {NetErr} : RequestResponse1(1, resp)
    \/ \E res \in RefreshResults(1) : RefreshResponse(1, res)
    \/ RefreshFinally(1)
    \/ RequestAfterRefresh(1)
    \/ \E resp \in HttpResponses \cup {NetErr} : RequestResponse2(1, resp)

OneCallSpec == Init /\ [][OneCallNext]_vars

\* The application: the auth context, the login form and the pages' calls.
AuthNext ==
    \/ \E r \in Reqs : InitEffect(r)
    \/ InitSettles
    \/ RouteEffect
    \/ LoginSubmit
    \/ \E resp \in LoginFailures \cup {NetErr} : LoginFails(resp)
    \/ \E v \in BOOLEAN : \E data \in LoginBodies(login.attempts) : LoginAnswers(v, data)
    \/ \E resp \in FetchResults : VerifySettles(resp)
    \/ logout
    \/ \E r \in Reqs : PageRequest(r)
    \/ \E r \in Reqs, resp \in FetchResults : RequestResponse1(r, resp)
    \/ \E p \in Reqs : \E res \in RefreshResults(p) : RefreshResponse(p, res)
    \/ \E r \in Reqs : RefreshFinally(r)
    \/ \E r \in Reqs : RequestAfterRefresh(r)
    \/ \E r \in Reqs, resp \in FetchResults : RequestResponse2(r, resp)

AuthSpec == AuthInit /\ [][AuthNext]_vars

\* A network call of a request() chain settles, or a continuation on the
\* microtask queue runs.
ChainStep ==
    \/ \E r \in Reqs, resp \in FetchResults : RequestResponse1(r, resp)
    \/ \E p \in Reqs : \E res \in RefreshResults(p) : RefreshResponse(p, res)
    \/ \E r \in Reqs : RefreshFinally(r)
    \/ \E r \in Reqs : RequestAfterRefresh(r)
    \/ \E r \in Reqs, resp \in FetchResults : RequestResponse2(r, resp)

\* The bootstrap effect runs after the first render, every network call
\* settles and the microtask queue is drained.  While the bootstrap verifies,
\* its chain is the only one (pages mount after it), so its steps are the
\* ones this fairness drives.
AuthLiveSpec ==
    /\ AuthSpec
    /\ WF_vars(\E r \in Reqs : InitEffect(r))
    /\ WF_vars(InitSettles)
    /\ WF_vars(ChainStep)

(***************************************************************************)
(* Properties.                                                             *)
(***************************************************************************)

\* The promises whose call to POST /v1/auth/refresh has not been answered.
Outstanding == {p \in 1..Len(promises) : promises[p].state = "pending"}

\* Caller r has called refreshAccessToken().
Refreshed(r) == req[r].refreshes > 0

\* Caller r found the handle non-empty on entering refreshAccessToken().
Shared(r) == Refreshed(r) /\ req[r].saw # NoPromise

\* refreshAccessToken() has returned to caller r.
Observed(r) == Refreshed(r) /\ req[r].pc \in {"fetch2", "done"}

\* C1: in every reachable state at most one call to the refresh endpoint is
\* outstanding, and a refreshAccessToken() call that found the handle
\* non-empty was handed that very handle and started no
\* doRefreshAccessToken() of its own.
C1_AtMostOneRefreshOutstanding ==
    /\ Cardinality(Outstanding) <= 1
    /\ \A r \in Reqs :
          Shared(r) => /\ req[r].joined = req[r].saw
                       /\ \A p \in 1..Len(promises) : promises[p].by # r

\* C1's case: a second caller has joined a refresh whose call is outstanding.
C1_Witness ==
    \E r \in Reqs :
        /\ Shared(r)
        /\ req[r].pc = "awaitShared"
        /\ req[r].joined \in Outstanding

\* The calls made to POST /v1/auth/refresh so far.
EndpointCalls == Cardinality({p \in 1..Len(promises) : promises[p].called})

\* The callers that found the handle empty and ran doRefreshAccessToken().
Starters == {r \in Reqs : Refreshed(r) /\ ~Shared(r)}

\* All NumReq calls were in flight together, each sent with a stored access
\* token, and each has received a 401.
AllGot401 ==
    \A r \in Reqs : req[r].together /\ Truthy(req[r].token) /\ Refreshed(r)

SameOutcome ==
    \A r1, r2 \in Reqs :
        Observed(r1) /\ Observed(r2) => req[r1].newToken = req[r2].newToken

\* C2 as stated (read for a stored refresh token; C22 is the case without):
\* if K concurrent calls each receive a 401, exactly one call to the refresh
\* endpoint is made in total and all K observe the same outcome, for every
\* order of the K 401 responses and the refresh response.
C2_Original ==
    (AllGot401 /\ \A p \in 1..Len(promises) : Truthy(promises[p].sent))
        => EndpointCalls = 1 /\ SameOutcome

\* C2, amended: if K concurrent calls each receive a 401 and every one after
\* the first enters refreshAccessToken() while the handle set by the first
\* is still non-empty, doRefreshAccessToken() runs once, the refresh
\* endpoint is called exactly once when a refresh token is stored and not
\* at all otherwise, and all K observe the same outcome.
C2_SingleFlight ==
    (AllGot401 /\ Cardinality(Starters) = 1)
        => /\ Len(promises) = 1
           /\ EndpointCalls = (IF Truthy(promises[1].sent) THEN 1 ELSE 0)
           /\ SameOutcome

\* C2's case: all K calls shared one refresh, whose call was made, and have
\* observed its token.
C2_Witness ==
    /\ AllGot401
    /\ Cardinality(Starters) = 1
    /\ EndpointCalls = 1
    /\ \A r \in Reqs : Observed(r) /\ Truthy(req[r].newToken)

\* C3: a caller that entered refreshAccessToken() while a refresh was in
\* flight receives the value that refresh's promise settled with, the same
\* value as the caller that started it; doRefreshAccessToken() has run once
\* per caller that found the handle empty, never once per caller.
C3_SharedValue ==
    /\ \A r \in Reqs :
          (Shared(r) /\ Observed(r)) =>
              LET p == promises[req[r].saw] IN
              /\ req[r].newToken = p.value
              /\ Observed(p.by) => req[p.by].newToken = req[r].newToken
    /\ Len(promises) = Cardinality(Starters)

\* C3's case: a starter and a sharer have both observed a refreshed token.
C3_Witness ==
    \E r \in Reqs :
        /\ Shared(r) /\ Observed(r)
        /\ Observed(promises[req[r].saw].by)
        /\ Truthy(req[r].newToken)

\* C4: one request() calls refreshAccessToken() at most once and issues its
\* HTTP call at most twice; when the retry too answers 401 the call fails
\* with ApiError 401 built from the retry response.
C4_AtMostOneRetry ==
    \A r \in Reqs :
        /\ req[r].refreshes <= 1
        /\ req[r].calls <= 2
        /\ (req[r].pc = "done" /\ req[r].calls = 2 /\ req[r].last = 401) =>
              /\ req[r].result.kind = "ApiError"
              /\ req[r].result.status = 401
              /\ req[r].result.from = 2

\* C4's case: a retry after a successful refresh was answered 401.
C4_Witness ==
    \E r \in Reqs :
        /\ req[r].pc = "done" /\ req[r].calls = 2 /\ req[r].last = 401
        /\ Truthy(req[r].newToken)

\* C5: a request() made with no stored access token attaches no
\* Authorization header, never calls refreshAccessToken() and starts no
\* refresh, and a 401 answer surfaces as ApiError 401 after one HTTP call.
C5_NoTokenPassthrough ==
    \A r \in Reqs :
        (req[r].pc # "idle" /\ ~Truthy(req[r].token)) =>
            /\ req[r].auth = UNDEF
            /\ req[r].refreshes = 0
            /\ req[r].calls = 1
            /\ \A p \in 1..Len(promises) : promises[p].by # r
            /\ (req[r].pc = "done" /\ req[r].last = 401) =>
                  /\ req[r].result.kind = "ApiError"
                  /\ req[r].result.status = 401
                  /\ req[r].result.from = 1

\* C5's case: an anonymous call was answered 401 while a refresh token was
\* stored.
C5_Witness ==
    \E r \in Reqs :
        /\ req[r].pc = "done" /\ ~Truthy(req[r].token) /\ req[r].last = 401
        /\ Truthy(store.refresh)

\* C6: when a request() sent with a token receives 401 and the refresh yields
\* no token, it makes no retry and fails with the ApiError that lines
\* 104-108 build from the original 401 response.
C6_RefreshFailureSurfaces401 ==
    \A r \in Reqs :
        (req[r].pc = "done" /\ Observed(r) /\ ~Truthy(promises[req[r].joined].value)) =>
            /\ req[r].calls = 1
            /\ \E resp \in FetchResults :
                  resp.status = 401 /\ req[r].result = Settle(resp, 1)

\* C6's case: the refresh endpoint answered non-2xx and the call has failed.
C6_Witness ==
    \E r \in Reqs :
        /\ req[r].pc = "done" /\ Observed(r)
        /\ promises[req[r].joined].answer = "non-2xx"

\* C9: the promise of doRefreshAccessToken() is never rejected and no
\* request() fails with an error of the refresh; after a network error, a
\* non-2xx answer or a body that is not JSON it is fulfilled with null, after
\* a JSON body without access_token with undefined, and the starter and
\* every sharer receive that absent value.
FailedAnswers == {"network error", "non-2xx", "not JSON"}
C9_RefreshNeverRaises ==
    /\ \A p \in 1..Len(promises) :
          /\ promises[p].state # "rejected"
          /\ promises[p].answer \in FailedAnswers =>
                promises[p].state = "fulfilled" /\ promises[p].value = NULL
          /\ promises[p].answer = "no access_token" => promises[p].value = UNDEF
    /\ \A r \in Reqs :
          /\ req[r].result.kind # "RefreshError"
          /\ (Observed(r) /\ promises[req[r].joined].answer \in FailedAnswers) =>
                req[r].newToken = NULL

\* C9's case: the refresh call was rejected, and its starter and a sharer
\* have both resumed.
C9_Witness ==
    \E r \in Reqs :
        /\ Shared(r) /\ Observed(r)
        /\ promises[req[r].saw].answer = "network error"
        /\ Observed(promises[req[r].saw].by)

\* The handle names a promise that has settled.
HandleSettled ==
    refreshPromise # NoPromise /\ promises[refreshPromise].state # "pending"

\* C10: while a refresh call is outstanding the handle is non-empty and names
\* that refresh, so it is never cleared before the refresh settles; and once
\* the refresh named by the handle has settled, the handle is eventually
\* empty again.
C10_HandleLifecycle ==
    /\ [](\A p \in 1..Len(promises) :
            promises[p].state = "pending" => refreshPromise = p)
    /\ (HandleSettled ~> refreshPromise = NoPromise)

\* C10's case: after one refresh settled and the handle was cleared, a later
\* 401 has started a fresh refresh, which is outstanding.
C10_Witness ==
    /\ Len(promises) = 2
    /\ promises[1].state = "fulfilled" /\ promises[1].called
    /\ refreshPromise = 2
    /\ promises[2].state = "pending"

\* The verify endpoint answered the current login attempt with a non-2xx
\* response.
VerifyRefused == login.verify > 0 /\ ~Ok(login.verify)

\* C7: when the login endpoint answered 2xx and the verify endpoint answered
\* non-2xx, login() fails with status 403 and the access-denied message and
\* the user stays null; and no step of a login attempt other than a passed
\* verification writes any of the three store keys.
C7_PrivilegeGate ==
    /\ []((login.pc = "done" /\ login.loginOk /\ VerifyRefused) =>
            (login.result = AccessDenied /\ ctx.user = NULL))
    /\ [][(login' # login /\ ~login'.verifyOk) =>
            (store' = store /\ ctx'.user = NULL)]_vars

\* C7's case: a login whose credentials were accepted was refused by the
\* verify endpoint.
C7_Witness ==
    login.pc = "done" /\ login.loginOk /\ VerifyRefused

\* The current login attempt has taken effect: login() resolved, or its
\* tokens are in the store, or its user is the context user.
LoginTookEffect ==
    \/ login.result.kind = "value"
    \/ login.attempts > 0 /\ store.access = LoginAccess(login.attempts)
    \/ ctx.user = "lu"

\* C8: login() takes effect only after the login call answered 2xx and then
\* the verify call, sent once with the access token of that login answer,
\* answered 2xx; the verify call is never issued for a failed login call.
C8_VerifyMandatory ==
    /\ LoginTookEffect =>
          /\ login.loginOk /\ login.verifyOk /\ Ok(login.verify)
          /\ login.verifyCalls = 1
          /\ login.bearer = Bearer(LoginAccess(login.attempts))
    /\ login.verifyCalls > 0 => login.loginOk
    /\ login.verifyCalls <= 1

\* C8's case: a login has resolved, with its tokens stored and its user set.
C8_Witness ==
    /\ login.result.kind = "value"
    /\ store.access = LoginAccess(login.attempts)
    /\ ctx.user = "lu"

\* Promise p settles in this step.
Settling(p) ==
    /\ p \in 1..Len(promises)
    /\ promises[p].state = "pending"
    /\ promises'[p].state # "pending"

\* C11: in the step in which a refresh whose answer was 2xx with an access
\* token settles, its promise is fulfilled with that access token, the stored
\* access token is that token in the same state in which the promise is
\* settled, and the stored refresh token is the answer's refresh token when
\* it carried one and the value it had before otherwise.
C11_SuccessfulRefreshStores ==
    [][\A p \in Reqs :
          (Settling(p) /\ promises'[p].answer = "token") =>
              /\ promises'[p].state = "fulfilled"
              /\ promises'[p].value = AccessTok(p)
              /\ store'.access = promises'[p].value
              /\ store'.refresh = (IF promises'[p].rotated # UNDEF
                                   THEN promises'[p].rotated ELSE store.refresh)
              /\ store'.user = store.user]_vars

\* C11's case: a refresh answered with an access token and no refresh token
\* has settled, and a later one answered with both has settled too.
C11_Witness ==
    /\ Len(promises) = 2
    /\ promises[1].answer = "token" /\ promises[1].rotated = UNDEF
    /\ promises[2].answer = "token" /\ promises[2].rotated = RefreshTok(2)
    /\ store.access = AccessTok(2) /\ store.refresh = RefreshTok(2)

\* C12 as stated: a refresh that yields no token (network error, non-2xx
\* answer, 2xx body that is not JSON or carries no access token) leaves the
\* stored access token and refresh token as they were when it started (no
\* other step writes the store while it is outstanding), and the starter's
\* return from refreshAccessToken() leaves the handle empty.
C12_Original ==
    [][/\ \A p \in Reqs :
             (Settling(p) /\ ~Truthy(promises'[p].value)) =>
                 /\ store'.access = store.access
                 /\ store'.refresh = store.refresh
       /\ \A r \in Reqs :
             (req[r].pc = "awaitOwn" /\ req'[r].pc # "awaitOwn") =>
                 refreshPromise' = NoPromise]_vars

\* C13 as stated: once a request() whose 401 triggered a refresh that yielded
\* no token has settled, the access token and the refresh token are no
\* longer in the store (read for runs in which no refresh endpoint answer
\* was a 2xx JSON body, so that no refresh wrote the store).
C13_Original ==
    (\A p \in 1..Len(promises) : promises[p].answer \in FailedAnswers \cup {"none"})
        => \A r \in Reqs :
              (req[r].pc = "done" /\ Refreshed(r) /\ ~Truthy(req[r].newToken)) =>
                  store.access = NULL /\ store.refresh = NULL

\* C14: a request() whose own HTTP call (the first call or the retry) was
\* rejected by the transport has failed with an error that is not an ApiError
\* and carries no HTTP status, raised by that very call, after which it made
\* no other call (a rejected first call: one call, no refresh); a request()
\* whose refresh call was rejected by the transport made no retry and failed
\* with the ApiError 401 of its first response.
C14_TransportErrorsDistinct ==
    \A r \in Reqs :
        req[r].pc = "done" =>
            /\ req[r].last = 0 =>
                  /\ req[r].result.kind \notin {"ApiError", "value", "none"}
                  /\ req[r].result.status = 0
                  /\ req[r].result.from = req[r].calls
                  /\ req[r].first = 0 =>
                        /\ req[r].calls = 1 /\ req[r].refreshes = 0
                        /\ \A p \in 1..Len(promises) : promises[p].by # r
            /\ (Refreshed(r) /\ promises[req[r].joined].answer = "network error") =>
                  /\ req[r].calls = 1
                  /\ req[r].result.kind = "ApiError"
                  /\ req[r].result.status = 401
                  /\ req[r].result.from = 1

\* C14's case: one call failed with 401 after its refresh call was rejected,
\* and another call's retry was rejected.
C14_Witness ==
    \E r1, r2 \in Reqs :
        /\ req[r1].pc = "done" /\ Refreshed(r1)
        /\ promises[req[r1].joined].answer = "network error"
        /\ req[r2].pc = "done" /\ req[r2].calls = 2 /\ req[r2].last = 0

\* request() r has settled on an HTTP response, held in req[r].response: its
\* latest call was answered, not rejected.
SettledOnResponse(r) == req[r].pc = "done" /\ req[r].last # 0

\* C15 as stated: for a non-2xx final response whose body is not valid JSON,
\* request() fails with an ApiError of that status whose message equals the
\* response's status text, for every status text, an empty one included.
C15_Original ==
    \A r \in Reqs :
        (SettledOnResponse(r) /\ ~Ok(req[r].response.status) /\ ~req[r].response.valid) =>
            /\ req[r].result.kind = "ApiError"
            /\ req[r].result.status = req[r].response.status
            /\ req[r].result.message = req[r].response.text

\* C15, amended: for a non-2xx final response whose body is not valid JSON,
\* request() fails with an ApiError of that status whose message is the
\* response's status text when that text is not empty and "Request failed"
\* when it is empty; the caller never sees the JSON parse failure.
C15_ErrorBodyFallback ==
    \A r \in Reqs :
        (SettledOnResponse(r) /\ ~Ok(req[r].response.status) /\ ~req[r].response.valid) =>
            /\ req[r].result.kind = "ApiError"
            /\ req[r].result.status = req[r].response.status
            /\ req[r].result.message =
                  (IF req[r].response.text # "" THEN req[r].response.text
                   ELSE "Request failed")

\* C15's case: a retry was answered non-2xx with a body that is not JSON and
\* no status text, and the call has failed.
C15_Witness ==
    \E r \in Reqs :
        /\ SettledOnResponse(r) /\ req[r].calls = 2
        /\ req[r].response.status = 500
        /\ ~req[r].response.valid /\ req[r].response.text = ""
        /\ req[r].result.message = "Request failed"

LoginRefused == login.pc = "done" /\ login.res.status > 0

\* The message the status alone determines.
MessageByStatus(status) ==
    IF status \in {401, 400} THEN InvalidCredentials
    ELSE IF status = 403 THEN AccountDisabled
    ELSE ServerUnavailable

\* The step in which the login call of an attempt fails.
LoginRefusedStep == login.pc = "loginFetch" /\ login'.pc = "done" /\ ~login'.loginOk

\* C17 as stated: when the login endpoint answers non-2xx, login() fails with
\* an ApiError of that status whose message the status alone determines
\* (401 or 400: invalid credentials; 403: account disabled; any other: server
\* unavailable), no verify call is made and nothing is persisted.
C17_Original ==
    /\ [](LoginRefused =>
            /\ login.result.kind = "ApiError"
            /\ login.result.status = login.res.status
            /\ login.result.message = MessageByStatus(login.res.status)
            /\ login.verifyCalls = 0)
    /\ [][LoginRefusedStep => store' = store /\ ctx' = ctx]_vars

\* C17, amended: when the login endpoint answers non-2xx, no verify call is
\* made and nothing is persisted; for 401 or 400 login() fails with that
\* status and the invalid-credentials message, for 403 with the
\* account-disabled message, whatever the body; for any other status it
\* fails with that status and the body's detail when that is a non-empty
\* string, "Login failed" when the body is not JSON, and the
\* server-unavailable message when a JSON object has no detail or an empty
\* one.
C17_LoginErrorMapping ==
    /\ [](LoginRefused =>
            /\ login.verifyCalls = 0
            /\ IF login.res.status \in {401, 400, 403}
               THEN /\ login.result.kind = "ApiError"
                    /\ login.result.status = login.res.status
                    /\ login.result.message = MessageByStatus(login.res.status)
               ELSE /\ login.result.kind = "ApiError"
                    /\ login.result.status = login.res.status
                    /\ login.result.message =
                          (IF ~login.res.valid THEN "Login failed"
                           ELSE IF login.res.detail \notin {UNDEF, ""}
                           THEN login.res.detail
                           ELSE ServerUnavailable))
    /\ [][LoginRefusedStep => store' = store /\ ctx' = ctx]_vars

\* C17's case: the login endpoint answered 500 with a detail in its body
\* while tokens of an earlier session were stored, and login() has failed
\* with that detail.
C17_Witness ==
    /\ LoginRefused
    /\ login.res.status = 500 /\ login.res.detail = "detail"
    /\ login.result.message = "detail"
    /\ store.refresh = OldRefresh

\* The step of logout(): the only step that takes the context user from
\* non-null to null.
LogoutStep == ctx.user # NULL /\ ctx'.user = NULL

\* The step in which the bootstrap's verifyAdmin() is seen to have failed.
BootstrapFailedStep ==
    /\ ctx.init = "verifying" /\ ctx'.init = "done"
    /\ req[ctx.vreq].result.kind # "value"

\* C18: in the state logout() leaves, and in the state the bootstrap leaves
\* when its verification of the stored token failed (with an ApiError of any
\* status or a transport error), none of the
\* three store keys is present and the context user is null: the three keys
\* go in one step, never some without the others.
C18_ClearedTogether ==
    [][(LogoutStep \/ BootstrapFailedStep) =>
          /\ store'.access = NULL /\ store'.refresh = NULL /\ store'.user = NULL
          /\ ctx'.user = NULL]_vars

\* C18's case: the bootstrap's verification of the stored token was rejected
\* by the network (the store was cleared); then a login succeeded and
\* logout() has run, and the store is empty again.
C18_Witness ==
    /\ ctx.init = "done" /\ ctx.vreq # 0
    /\ req[ctx.vreq].result.kind = "TypeError"
    /\ login.result.kind = "value"
    /\ ctx.user = NULL
    /\ store = NoStore

\* A step inside refreshAccessToken(): a caller that found the handle empty
\* assigns it (line 43), or the starter's finally block runs (line 47).
InRefreshAccessToken ==
    \E r \in Reqs :
        \/ req[r].pc = "fetch1" /\ req'[r].pc = "awaitOwn"
        \/ req[r].pc = "awaitOwn" /\ req'[r].pc = "refreshed"

\* A step that sets a stored token: a token key gets a value it did not have.
SetsToken ==
    \/ store'.access # store.access /\ store'.access # NULL
    \/ store'.refresh # store.refresh /\ store'.refresh # NULL

\* The step in which a refresh succeeds: its promise settles with a token.
RefreshSucceedsStep == \E p \in Reqs : Settling(p) /\ Truthy(promises'[p].value)

\* The step in which login() gets past adminLogin() and resolves.
LoginSucceedsStep == login.pc = "verifyFetch" /\ login'.result.kind = "value"

\* C19 as stated: only refreshAccessToken() assigns the in-flight handle;
\* stored tokens are set only by a successful login and by a successful
\* refresh; every other step (request() outside its refresh, every other
\* call site) leaves the store as it is, the only removals being logout()'s
\* and the failed bootstrap's.
C19_Original ==
    [][/\ refreshPromise' # refreshPromise => InRefreshAccessToken
       /\ SetsToken => (RefreshSucceedsStep \/ LoginSucceedsStep)
       /\ store' # store =>
             \/ RefreshSucceedsStep \/ LoginSucceedsStep
             \/ LogoutStep \/ BootstrapFailedStep]_vars

\* C20: a request() that has called refreshAccessToken() or made a second
\* HTTP call had a token attached and got exactly 401 as its first response
\* status; a request() whose first response had any other non-2xx status
\* made no refresh call and no retry and has failed with an ApiError of that
\* status after exactly one HTTP call.
C20_RefreshOnlyOn401 ==
    \A r \in Reqs :
        /\ (Refreshed(r) \/ req[r].calls > 1 \/ \E p \in 1..Len(promises) : promises[p].by = r)
              => req[r].first = 401 /\ Truthy(req[r].token)
        /\ (req[r].first > 0 /\ ~Ok(req[r].first) /\ req[r].first # 401) =>
              /\ req[r].pc = "done"
              /\ req[r].calls = 1 /\ req[r].refreshes = 0
              /\ \A p \in 1..Len(promises) : promises[p].by # r
              /\ req[r].result.kind = "ApiError"
              /\ req[r].result.status = req[r].first

\* C20's case: a call sent with a token, with a refresh token stored, was
\* answered 403 and has failed.
C20_Witness ==
    \E r \in Reqs :
        /\ req[r].pc = "done" /\ req[r].first = 403
        /\ Truthy(req[r].token) /\ Truthy(store.refresh)
        /\ req[r].result.kind = "ApiError" /\ req[r].result.status = 403

\* A refresh that settled after the one caller r was handed has written the
\* store again.
LaterRefreshWrote(r) ==
    \E p \in (req[r].joined + 1)..Len(promises) :
        promises[p].answer \in {"token", "no access_token"}

\* C21: when a request() sent with a stored access token got 401, its
\* refresh yielded a token and its retry was answered 2xx with a JSON body,
\* the request has resolved to the retry's body; it made two calls, to the
\* same target with the same options, the first with 'Bearer ' plus the token
\* stored when it began and the retry with 'Bearer ' plus the token the
\* refresh resolved to; and the stored access token is that token (as long
\* as no later refresh has written the store).
C21_RefreshThenRetry ==
    \A r \in Reqs :
        (/\ req[r].pc = "done" /\ Truthy(req[r].token) /\ req[r].first = 401
         /\ Truthy(promises[req[r].joined].value)
         /\ Ok(req[r].last) /\ req[r].response.valid) =>
            /\ req[r].result.kind = "value" /\ req[r].result.from = 2
            /\ req[r].calls = 2 /\ Len(req[r].sent) = 2
            /\ req[r].sent[1] = [target |-> Target(r), auth |-> Bearer(req[r].token)]
            /\ req[r].sent[2].target = req[r].sent[1].target
            /\ req[r].sent[2].auth = Bearer(promises[req[r].joined].value)
            /\ promises[req[r].joined].value = AccessTok(req[r].joined)
            /\ ~LaterRefreshWrote(r) => store.access = promises[req[r].joined].value

\* C21's case: a call that shared another call's refresh has resolved from
\* its retry, and the store holds the refreshed token.
C21_Witness ==
    \E r \in Reqs :
        /\ req[r].pc = "done" /\ Shared(r)
        /\ req[r].result.kind = "value" /\ req[r].result.from = 2
        /\ store.access = req[r].newToken
        /\ req[r].newToken # req[r].token

\* The starter of promise p has left refreshAccessToken().
StarterReturned(p) == req[promises[p].by].pc \in {"refreshed", "fetch2", "done"}

\* C22: a refresh started with no refresh token in the store made no call to
\* the refresh endpoint and is fulfilled with null from the start; once its
\* starter has left refreshAccessToken() the handle no longer names it, and
\* is empty unless a later refresh has started.
C22_NoRefreshTokenNoCall ==
    \A p \in 1..Len(promises) :
        ~Truthy(promises[p].sent) =>
            /\ ~promises[p].called
            /\ promises[p].answer = "none"
            /\ promises[p].state = "fulfilled" /\ promises[p].value = NULL
            /\ StarterReturned(p) =>
                  /\ refreshPromise # p
                  /\ refreshPromise = NoPromise \/ refreshPromise > p

\* C22's case: with an access token and no refresh token stored, a call got
\* 401, its refresh resolved to null without a call, and it has failed with
\* the handle empty.
C22_Witness ==
    /\ Len(promises) = 1
    /\ ~promises[1].called /\ promises[1].sent = NULL
    /\ req[promises[1].by].pc = "done"
    /\ req[promises[1].by].result.status = 401
    /\ refreshPromise = NoPromise
    /\ EndpointCalls = 0

\* The backend rotates: every refresh answer that carried an access token
\* carried a new refresh token too.
BackendRotates ==
    \A p \in 1..Len(promises) :
        promises[p].answer = "token" => promises[p].rotated = RefreshTok(p)

\* The refresh token in the store when refresh p started: the one the latest
\* earlier answer wrote, or the one found at page load.
RefreshTokenBefore(p) ==
    LET wrote == {q \in 1..(p - 1) : Truthy(promises[q].rotated)}
    IN  IF wrote = {} THEN OldRefresh
        ELSE promises[CHOOSE q \in wrote : \A q2 \in wrote : q2 <= q].rotated

\* C23: with a backend that rotates the refresh token on every successful
\* refresh, every refresh starts after all earlier ones have settled, each
\* call to the refresh endpoint carries the refresh token the latest earlier
\* answer left in the store, and so none carries a token that an earlier
\* refresh has replaced.
C23_NoRefreshStorm ==
    BackendRotates =>
        \A p2 \in 1..Len(promises) :
            /\ \A p1 \in 1..(p2 - 1) :
                  /\ promises[p1].state # "pending"
                  /\ Truthy(promises[p1].rotated) =>
                        promises[p2].sent # promises[p1].sent
            /\ promises[p2].called => promises[p2].sent = RefreshTokenBefore(p2)

\* C23's case: two calls in flight together; the refresh of the first
\* succeeded and rotated the refresh token, and the second call's 401 has
\* started a second refresh, which carries the rotated token.
C23_Witness ==
    /\ Len(promises) = 2
    /\ promises[1].answer = "token" /\ promises[1].rotated = RefreshTok(1)
    /\ promises[2].called /\ promises[2].sent = RefreshTok(1)
    /\ req[promises[2].by].together

\* logout() has run after the login of this page load succeeded, and no login
\* has been attempted since.
LoggedOut == ctx.user = NULL /\ login.result.kind = "value"

\* C24 as stated: once logout() has run, the access token and the refresh
\* token stay absent from the store until the next successful login, in every
\* interleaving, also when a refresh started before logout() succeeds after
\* it (read for refresh answers that carry an access token or fail).
C24_Original ==
    (LoggedOut /\ \A p \in 1..Len(promises) : promises[p].answer # "no access_token")
        => store.access = NULL /\ store.refresh = NULL

\* The step sets the user: setUser() with a non-null argument (lines 50, 84).
SetsUser == ctx.user = NULL /\ ctx'.user # NULL

\* The step is login() past adminLogin(): it has written the store (lines 81-83).
AfterLoginWrite == LoginSucceedsStep /\ store' = StoreAfterLogin(login.data)

\* The step is the bootstrap after verifyAdmin(), which was called with a
\* stored token, returned.
AfterBootstrapVerify ==
    /\ ctx.init = "verifying"
    /\ Truthy(req[ctx.vreq].token)
    /\ req[ctx.vreq].result.kind = "value"
    /\ ctx'.init = "done"

\* C25: a non-null user implies an access token in the store; the user is set
\* only by login() after it wrote the store or by the bootstrap after a
\* verification with a stored token succeeded; the step that sets the user to
\* null removes the tokens.
C25_UserImpliesToken ==
    /\ [](ctx.user # NULL => store.access # NULL)
    /\ [][(SetsUser => (AfterLoginWrite \/ AfterBootstrapVerify))
          /\ (LogoutStep => (store'.access = NULL /\ store'.refresh = NULL))]_vars

C25_Witness ==
    /\ ctx.user # NULL
    /\ Len(promises) = 1
    /\ promises[1].answer = "token"
    /\ store.access = AccessTok(1)

\* The step is made by protected content: a dashboard page starts a call
\* (the bootstrap's own call moves ctx.init), or the shell's logout button.
ProtectedContentStep ==
    \/ /\ \E r \in Reqs : req[r].pc = "idle" /\ req'[r].pc # "idle"
       /\ ctx' = ctx
    \/ LogoutStep

\* The route effect is due and replaces the route with path.
RedirectIssued(path) == ENABLED (RouteEffect /\ ctx'.pathname = path)

\* C26: protected dashboard content acts only in states where the bootstrap
\* has finished and the user is non-null; when the bootstrap has finished
\* with no user on a path other than /login the redirect to /login is issued,
\* and with a user on /login the redirect to / is issued; the route effect
\* redirects in no other case.
C26_RouteProtection ==
    /\ []((~ctx.isLoading /\ ctx.user = NULL /\ ctx.pathname # "/login")
            => RedirectIssued("/login"))
    /\ []((ctx.user # NULL /\ ctx.pathname = "/login") => RedirectIssued("/"))
    /\ []((ctx.isLoading \/ (ctx.user = NULL <=> ctx.pathname = "/login"))
            => ~ENABLED RouteEffect)
    /\ [][ProtectedContentStep => (~ctx.isLoading /\ ctx.user # NULL)]_vars

C26_Witness ==
    /\ ShellRendered
    /\ ctx.init = "done"
    /\ \E r \in Reqs : req[r].pc # "idle" /\ ctx.vreq # r

\* C27: provided every network call the bootstrap issues settles, isLoading
\* eventually becomes false (with no stored token, after a verification that
\* succeeded, failed with an ApiError or failed with a transport error), and
\* it never returns to true.
C27_BootstrapTerminates ==
    /\ <>(~ctx.isLoading)
    /\ [][~ctx.isLoading => ~ctx'.isLoading]_vars

C27_Witness ==
    /\ ~ctx.isLoading
    /\ ctx.init = "done"
    /\ ctx.vreq \in Reqs
    /\ req[ctx.vreq].result = TransportError(2)

\* The step is the bootstrap effect's first run (init(), from line 40).
BootstrapStarts == ctx.init = "mounted" /\ ctx'.init # "mounted"

\* C28: a bootstrap that finds no stored access token issues no network call
\* (no request() chain and no refresh starts), leaves every store key as it
\* was (a stored refresh token and user blob are kept) and ends, with user
\* null.
C28_BootstrapWithoutToken ==
    [][(BootstrapStarts /\ store.access = NULL)
        => /\ req' = req
           /\ promises' = promises
           /\ refreshPromise' = refreshPromise
           /\ store' = store
           /\ ctx'.init = "done"
           /\ ctx'.user = NULL]_vars

C28_Witness ==
    /\ ctx.init = "done"
    /\ ctx.user = NULL
    /\ store = [access |-> NULL, refresh |-> OldRefresh, user |-> OldUser]
    /\ \A r \in Reqs : req[r].pc = "idle"
    /\ login.pc = "idle"

\* The step belongs to adminLogin(): the login call is issued or one of its
\* two calls settles.
AdminLoginStep == login' # login

\* The step is adminLogin() returning its data to login(), which then writes
\* the store (AdminAuthContext.tsx lines 81-83).
AdminLoginReturns == login.pc = "verifyFetch" /\ login'.verifyOk

\* C29: adminLogin() neither reads nor writes the credential store or the
\* in-flight handle: its login call carries no Authorization header and its
\* verify call the token of the login answer; whatever its two calls answer,
\* a 401 included, no refresh and no request() chain starts and each call is
\* made once; on every path on which it throws the store is as it was.
C29_AdminLoginFrame ==
    /\ [](login.pc # "idle" =>
            /\ login.auth = UNDEF
            /\ login.verifyCalls <= 1
            /\ login.verifyCalls = 1 => login.bearer = Bearer(ToStr(login.data.access_token)))
    /\ [][AdminLoginStep =>
            /\ refreshPromise' = refreshPromise
            /\ promises' = promises
            /\ req' = req
            /\ ~AdminLoginReturns => store' = store]_vars

C29_Witness ==
    /\ login.pc = "done"
    /\ login.verify = 401
    /\ login.result = AccessDenied
    /\ store.refresh = OldRefresh
    /\ Len(promises) = 0

\* The step is request() chain r beginning: it reads the token, issues its call.
RequestBegins(r) == req[r].pc = "idle" /\ req'[r].pc = "fetch1"

\* The step is the first call of chain r answering 2xx.
FirstAnswer2xx(r) == req[r].pc = "fetch1" /\ req'[r].pc # "fetch1" /\ Ok(req'[r].first)

\* The header a call carries for the token read from the store.
Carrying(token) == IF token = NULL THEN UNDEF ELSE "Bearer " \o token

\* C30: a request() whose first response is 2xx makes exactly one HTTP call,
\* carrying the access token that was in the store when it began (none when
\* none was stored), makes no refresh call, and neither of its steps changes
\* the credential store or the in-flight handle.
C30_SuccessFrame ==
    /\ [](\A r \in Reqs : (req[r].pc # "fetch1" /\ Ok(req[r].first)) =>
            /\ req[r].pc = "done"
            /\ req[r].result.from = 1
            /\ req[r].calls = 1
            /\ req[r].sent = <<[target |-> Target(r), auth |-> Carrying(req[r].token)]>>
            /\ req[r].refreshes = 0
            /\ req[r].joined = NoPromise
            /\ \A p \in 1..Len(promises) : promises[p].by # r)
    /\ [][\A r \in Reqs :
            /\ RequestBegins(r) =>
                 /\ req'[r].token = store.access
                 /\ req'[r].sent = <<[target |-> Target(r), auth |-> Carrying(store.access)]>>
                 /\ store' = store
                 /\ refreshPromise' = refreshPromise
                 /\ promises' = promises
            /\ FirstAnswer2xx(r) =>
                 /\ store' = store
                 /\ refreshPromise' = refreshPromise
                 /\ promises' = promises]_vars

C30_Witness ==
    \E r \in Reqs :
        /\ req[r].pc = "done"
        /\ req[r].first = 200
        /\ req[r].result.kind = "value"
        /\ req[r].token = OldAccess
        /\ refreshPromise # NoPromise
        /\ promises[refreshPromise].state = "pending"

====
